---------------------------- MODULE Spec2Model ----------------------------
(***************************************************************************)
(* A model of oxidant's bencode decoder (src/src/bencode/mod.rs).          *)
(*                                                                         *)
(* The decoder is a recursive-descent parser over one shared               *)
(* Peekable<Chars> cursor.  The model runs it as a machine with an         *)
(* explicit call stack: one frame per active call of parse,                *)
(* parse_integer, parse_string, parse_list or parse_dictionary, and one    *)
(* action per block of each function (opening delimiter, one loop          *)
(* iteration, closing block, handling of a callee's Result).               *)
(*                                                                         *)
(* A character is a one-element TLA+ string; a text is a sequence of       *)
(* characters.  An i64 is kept exactly, as a sign and a base-10 magnitude, *)
(* so that the 64-bit range limits of str::parse::<i64> are the real ones. *)
(***************************************************************************)
EXTENDS Integers, Sequences, FiniteSets, TLC

(***************************************************************************)
(* Characters                                                              *)
(***************************************************************************)

\* One character outside ASCII (two bytes in UTF-8), written as a token.
NonAscii == "U+00E9"

Digits == {"0", "1", "2", "3", "4", "5", "6", "7", "8", "9"}

\* char::len_utf8 for the characters the model uses.
Utf8Len(c) == IF c = NonAscii THEN 2 ELSE 1

\* char::to_digit(10) for a decimal digit.
DigitOf(c) ==
    CASE c = "0" -> 0 [] c = "1" -> 1 [] c = "2" -> 2 [] c = "3" -> 3
      [] c = "4" -> 4 [] c = "5" -> 5 [] c = "6" -> 6 [] c = "7" -> 7
      [] c = "8" -> 8 [] c = "9" -> 9

\* The character of a digit value.
CharOf(d) == CHOOSE c \in Digits : DigitOf(c) = d

RECURSIVE ByteLen(_)
\* String::len(): the length in bytes.
ByteLen(s) == IF s = << >> THEN 0 ELSE Utf8Len(Head(s)) + ByteLen(Tail(s))

\* str::is_char_boundary(n), for 0 <= n.
IsCharBoundary(s, n) == \E k \in 0..Len(s) : ByteLen(SubSeq(s, 1, k)) = n

\* &s[0..n] for a char boundary n: the prefix of n bytes.
BytePrefix(s, n) ==
    SubSeq(s, 1, CHOOSE k \in 0..Len(s) : ByteLen(SubSeq(s, 1, k)) = n)

(***************************************************************************)
(* i64, exactly: [neg, mag] with mag the decimal digits of the magnitude,  *)
(* most significant first, no leading zero; zero is [FALSE, << >>].        *)
(***************************************************************************)

I64MaxMag == <<9, 2, 2, 3, 3, 7, 2, 0, 3, 6, 8, 5, 4, 7, 7, 5, 8, 0, 7>>
I64MinMag == <<9, 2, 2, 3, 3, 7, 2, 0, 3, 6, 8, 5, 4, 7, 7, 5, 8, 0, 8>>

I64(neg, mag) == [neg |-> neg /\ mag # << >>, mag |-> mag]
I64Zero == I64(FALSE, << >>)

RECURSIVE LexLess(_, _)
\* a < b for digit sequences of equal length.
LexLess(a, b) ==
    /\ a # << >>
    /\ \/ Head(a) < Head(b)
       \/ Head(a) = Head(b) /\ LexLess(Tail(a), Tail(b))

\* a < b for magnitudes.
MagLess(a, b) == Len(a) < Len(b) \/ (Len(a) = Len(b) /\ LexLess(a, b))

\* a < b for i64 values.
I64Less(a, b) ==
    CASE a.neg /\ ~b.neg -> TRUE
      [] ~a.neg /\ b.neg -> FALSE
      [] ~a.neg /\ ~b.neg -> MagLess(a.mag, b.mag)
      [] OTHER -> MagLess(b.mag, a.mag)

\* mag * 10 + d.
MagMulAdd(mag, d) == IF mag = << >> /\ d = 0 THEN << >> ELSE Append(mag, d)

RECURSIVE MagOfNat(_)
\* The magnitude of a natural number.
MagOfNat(n) == IF n = 0 THEN << >> ELSE Append(MagOfNat(n \div 10), n % 10)

RECURSIVE MagDecr(_)
\* mag - 1, for mag > 0.
MagDecr(mag) ==
    LET n == Len(mag)
        front == SubSeq(mag, 1, n - 1)
    IN  IF mag[n] > 0
        THEN (IF n = 1 /\ mag[n] = 1 THEN << >> ELSE Append(front, mag[n] - 1))
        ELSE Append(MagDecr(front), 9)

RECURSIVE MagSubNat(_, _)
\* mag - n, for mag >= n.
MagSubNat(mag, n) == IF n = 0 THEN mag ELSE MagSubNat(MagDecr(mag), n - 1)

\* i - x of parse_string's error message: i > x >= 0 there.
I64SubNat(i, x) == I64(FALSE, MagSubNat(i.mag, x))

\* <i64 as Display>::fmt: the decimal text.
I64Display(i) ==
    LET ds == [k \in 1..Len(i.mag) |-> CharOf(i.mag[k])]
    IN  IF i.mag = << >> THEN <<"0">>
        ELSE IF i.neg THEN <<"-">> \o ds ELSE ds

(***************************************************************************)
(* Result<BCObject, String> and BCObject                                   *)
(***************************************************************************)

Ok(v) == [tag |-> "Ok", v |-> v]
\* An error message: its text (a format string where the code formats one)
\* and the text formatted into its {}.
Err(msg, arg) == [tag |-> "Err", e |-> <<msg, arg>>]
IsOk(r) == r.tag = "Ok"
IsErr(r) == r.tag = "Err"
\* No Result: no callee has returned to the running frame.
NoRet == [tag |-> "None"]

\* Each variant has a field of its own name for what it holds.
BCString(s) == [tag |-> "String", s |-> s]
BCInteger(i) == [tag |-> "Integer", i |-> i]
BCList(v) == [tag |-> "List", l |-> v]
BCDictionary(m) == [tag |-> "Dictionary", m |-> m]

\* BTreeMap::new().
EmptyMap == << >>

\* An insert that keeps a present key's value.
MapInsertKeepFirst(m, key, v) ==
    [k \in (DOMAIN m) \cup {key} |-> IF k \in DOMAIN m THEN m[k] ELSE v]

\* BTreeMap::insert(key, v): a present key's value is replaced.
MapInsert(m, key, v) ==
    [k \in (DOMAIN m) \cup {key} |-> IF k = key THEN v ELSE m[k]]

RECURSIVE BCObjectEq(_, _)
\* BCObjectEq whose Dictionary arm compares the keys and not the values.
BCObjectEqKeysOnly(a, b) ==
    CASE a.tag = "String" /\ b.tag = "String" -> a.s = b.s
      [] a.tag = "Integer" /\ b.tag = "Integer" -> a.i = b.i
      [] a.tag = "List" /\ b.tag = "List" ->
            IF Len(a.l) = Len(b.l)
            THEN \A x \in 1..Len(a.l) : BCObjectEq(a.l[x], b.l[x])
            ELSE FALSE
      [] a.tag = "Dictionary" /\ b.tag = "Dictionary" ->
            IF Cardinality(DOMAIN a.m) = Cardinality(DOMAIN b.m)
            THEN \A k \in DOMAIN a.m : k \in DOMAIN b.m
            ELSE FALSE
      [] OTHER -> FALSE

\* impl PartialEq for BCObject.
BCObjectEq(a, b) ==
    CASE a.tag = "String" /\ b.tag = "String" -> a.s = b.s
      [] a.tag = "Integer" /\ b.tag = "Integer" -> a.i = b.i
      [] a.tag = "List" /\ b.tag = "List" ->
            IF Len(a.l) = Len(b.l)
            THEN \A x \in 1..Len(a.l) : BCObjectEq(a.l[x], b.l[x])
            ELSE FALSE
      [] a.tag = "Dictionary" /\ b.tag = "Dictionary" ->
            IF Cardinality(DOMAIN a.m) = Cardinality(DOMAIN b.m)
            THEN \A k \in DOMAIN a.m :
                    k \in DOMAIN b.m /\ BCObjectEq(a.m[k], b.m[k])
            ELSE FALSE
      [] OTHER -> FALSE

(***************************************************************************)
(* str::parse::<i64>() (core::num, radix 10), as parse_integer and         *)
(* parse_string call it, with Error::description() of its error.           *)
(***************************************************************************)

PIE_Empty == "cannot parse integer from empty string"
PIE_InvalidDigit == "invalid digit found in string"
PIE_Overflow == "number too large to fit in target type"
PIE_Underflow == "number too small to fit in target type"

RECURSIVE ParseDigits(_, _, _)
\* ParseDigits with one limit, 2^63 - 1, for both signs.
ParseDigitsOneLimit(digits, neg, mag) ==
    IF digits = << >> THEN Ok(I64(neg, mag))
    ELSE IF Head(digits) \notin Digits THEN Err(PIE_InvalidDigit, << >>)
    ELSE LET next == MagMulAdd(mag, DigitOf(Head(digits)))
         IN  IF MagLess(I64MaxMag, next)
             THEN Err(IF neg THEN PIE_Underflow ELSE PIE_Overflow, << >>)
             ELSE ParseDigits(Tail(digits), neg, next)

\* The digit loop: result = result * 10 (checked), then + or - the digit
\* (checked).  An i64 holds -2^63 .. 2^63 - 1.
ParseDigits(digits, neg, mag) ==
    IF digits = << >> THEN Ok(I64(neg, mag))
    ELSE IF Head(digits) \notin Digits THEN Err(PIE_InvalidDigit, << >>)
    ELSE LET next == MagMulAdd(mag, DigitOf(Head(digits)))
         IN  IF MagLess(IF neg THEN I64MinMag ELSE I64MaxMag, next)
             THEN Err(IF neg THEN PIE_Underflow ELSE PIE_Overflow, << >>)
             ELSE ParseDigits(Tail(digits), neg, next)

\* An optional sign, '+' or '-', then at least one digit.  (A sign with no
\* digit is an error in every toolchain; its message is Empty in the ones
\* of the repository's time.)
ParseI64(src) ==
    IF src = << >> THEN Err(PIE_Empty, << >>)
    ELSE LET signed == Head(src) \in {"+", "-"}
             digits == IF signed THEN Tail(src) ELSE src
         IN  IF digits = << >> THEN Err(PIE_Empty, << >>)
             ELSE ParseDigits(digits, Head(src) = "-", << >>)

(***************************************************************************)
(* The decoder's state                                                     *)
(***************************************************************************)

VARIABLES
    entry,    \* the function the caller invoked (parse_blob, or a rule)
    origin,   \* how the input text was built (never read by the decoder)
    input,    \* the blob, a sequence of characters
    pos,      \* the cursor: index of the next character of the iterator
    stack,    \* the active calls, innermost last
    ret,      \* the Result the innermost call's callee returned, or the
              \* Result of the whole call once the stack is empty
    outcome   \* "running", "returned" or "panicked"

vars == <<entry, origin, input, pos, stack, ret, outcome>>

\* iter.peek().is_some()
HasNext == pos <= Len(input)
\* The character iter.peek() / iter.next() yields, when there is one.
NextChar == input[pos]
\* The cursor after iter.next(): an exhausted iterator stays where it is.
Advance == IF HasNext THEN pos + 1 ELSE pos

ParseFrame == [fn |-> "parse"]
IntegerFrame == [fn |-> "parse_integer", pc |-> "open", i |-> << >>]
StringFrame ==
    [fn |-> "parse_string", pc |-> "len", len |-> << >>, n |-> I64Zero,
     x |-> 0, buff |-> << >>]
ListFrame == [fn |-> "parse_list", pc |-> "open", v |-> << >>]
DictionaryFrame ==
    [fn |-> "parse_dictionary", pc |-> "open", m |-> EmptyMap, key |-> << >>]

Running == outcome = "running" /\ stack # << >>
Top == stack[Len(stack)]
Callers == SubSeq(stack, 1, Len(stack) - 1)
In(fn, pc) == Running /\ Top.fn = fn /\ Top.pc = pc

\* The innermost call goes on, its frame now f.
Continue(f) ==
    /\ stack' = Append(Callers, f)
    /\ ret' = NoRet
    /\ outcome' = "running"

\* The innermost call (its frame now f) calls the function of frame g.
Call(f, g) ==
    /\ stack' = Callers \o <<f, g>>
    /\ ret' = NoRet
    /\ outcome' = "running"

\* The innermost call returns r, to its caller or out of the decoder.
Return(r) ==
    /\ stack' = Callers
    /\ ret' = r
    /\ outcome' = IF Callers = << >> THEN "returned" ELSE "running"

\* A panic unwinds every call: no Result is produced.
Panic ==
    /\ stack' = << >>
    /\ ret' = NoRet
    /\ outcome' = "panicked"

(***************************************************************************)
(* parse: the dispatcher                                                   *)
(***************************************************************************)

\* The rule the match on the peeked character selects; << >> when none.
Dispatch(c) ==
    CASE c = "i" -> <<IntegerFrame>>
      [] c = "d" -> <<DictionaryFrame>>
      [] c = "l" -> <<ListFrame>>
      [] c \in Digits -> <<StringFrame>>
      [] OTHER -> << >>

\* parse: iter.peek().unwrap() panics on an exhausted iterator; the rule's
\* Result is returned as it is, so the rule's frame takes the place of
\* parse's.  The cursor is only peeked.
Parse ==
    /\ Running /\ Top.fn = "parse"
    /\ IF ~HasNext THEN Panic
       ELSE IF Dispatch(NextChar) = << >>
            THEN Return(Err("not implemented: {}", <<NextChar>>))
            ELSE Continue(Dispatch(NextChar)[1])
    /\ UNCHANGED <<entry, origin, input, pos>>

(***************************************************************************)
(* parse_integer                                                           *)
(***************************************************************************)

\* if let Some('i') = iter.next()
IntegerOpen ==
    /\ In("parse_integer", "open")
    /\ pos' = Advance
    /\ IF HasNext /\ NextChar = "i"
       THEN Continue([Top EXCEPT !.pc = "loop"])
       ELSE Return(Err("tried to parse an integer - not an integer", << >>))
    /\ UNCHANGED <<entry, origin, input>>

\* IntegerLoop that pushes the peeked character and leaves it in the iterator.
IntegerLoopPeekOnly ==
    /\ In("parse_integer", "loop")
    /\ HasNext /\ NextChar # "e"
    /\ pos' = pos
    /\ Continue([Top EXCEPT !.i = Append(@, NextChar)])
    /\ UNCHANGED <<entry, origin, input>>

\* One iteration of the while loop: i.push(iter.next().unwrap()).
IntegerLoop ==
    /\ In("parse_integer", "loop")
    /\ HasNext /\ NextChar # "e"
    /\ pos' = pos + 1
    /\ Continue([Top EXCEPT !.i = Append(@, NextChar)])
    /\ UNCHANGED <<entry, origin, input>>

\* The two canonical-form checks on the buffer.  &i[0..2] and &i[0..1] are
\* byte slices: one that ends inside a character panics.
IntegerCheck(i) ==
    IF ByteLen(i) >= 2 /\ ~IsCharBoundary(i, 2) THEN "panic"
    ELSE IF ByteLen(i) >= 2 /\ BytePrefix(i, 2) = <<"-", "0">>
    THEN "integer cannot start with or consist of -0"
    ELSE IF ByteLen(i) > 1 /\ ~IsCharBoundary(i, 1) THEN "panic"
    ELSE IF ByteLen(i) > 1 /\ BytePrefix(i, 1) = <<"0">>
    THEN "integer cannot start with leading 0"
    ELSE "ok"

\* i.parse::<i64>() matched into the rule's Result.
IntegerResult(i) ==
    LET int == ParseI64(i)
    IN  IF IsOk(int) THEN Ok(BCInteger(int.v)) ELSE int

\* After the loop: the premature-end check, the canonical-form checks, the
\* closing 'e' consumed, the buffer parsed.
IntegerClose ==
    /\ In("parse_integer", "loop")
    /\ ~(HasNext /\ NextChar # "e")
    /\ IF ~HasNext
       THEN /\ Return(Err("premature end of integer string", << >>))
            /\ pos' = pos
       ELSE IF IntegerCheck(Top.i) = "panic"
       THEN Panic /\ pos' = pos
       ELSE IF IntegerCheck(Top.i) # "ok"
       THEN Return(Err(IntegerCheck(Top.i), << >>)) /\ pos' = pos
       ELSE Return(IntegerResult(Top.i)) /\ pos' = pos + 1
    /\ UNCHANGED <<entry, origin, input>>

(***************************************************************************)
(* parse_string                                                            *)
(***************************************************************************)

\* One iteration of the length loop: len.push(iter.next().unwrap()).
StringLenLoop ==
    /\ In("parse_string", "len")
    /\ HasNext /\ NextChar # ":"
    /\ pos' = pos + 1
    /\ Continue([Top EXCEPT !.len = Append(@, NextChar)])
    /\ UNCHANGED <<entry, origin, input>>

\* After the length loop: the premature-end check, the length parsed as an
\* i64, and on Ok(i) the ':' consumed before the counted loop starts.
StringLenClose ==
    /\ In("parse_string", "len")
    /\ ~(HasNext /\ NextChar # ":")
    /\ IF ~HasNext
       THEN Return(Err("premature end of string", << >>)) /\ pos' = pos
       ELSE IF IsOk(ParseI64(Top.len))
       THEN /\ Continue([Top EXCEPT !.pc = "read", !.n = ParseI64(Top.len).v])
            /\ pos' = pos + 1
       ELSE Return(ParseI64(Top.len)) /\ pos' = pos
    /\ UNCHANGED <<entry, origin, input>>

\* The loop test off by one: the last character is not read.
StringMoreOffByOne(x, i) == I64Less(I64(FALSE, MagOfNat(x + 1)), i)

\* The loop test on the magnitude of i, as if the length were unsigned.
StringMoreUnsigned(x, i) == MagLess(MagOfNat(x), i.mag)

\* for x in 0..i goes on while x < i; a negative or zero i gives no iteration.
StringMore(x, i) == I64Less(I64(FALSE, MagOfNat(x)), i)

\* One iteration of for x in 0..i: a character is read, or the text ends
\* with i - x characters still owed.
StringRead ==
    /\ In("parse_string", "read")
    /\ StringMore(Top.x, Top.n)
    /\ pos' = Advance
    /\ IF HasNext
       THEN Continue([Top EXCEPT !.buff = Append(@, NextChar), !.x = @ + 1])
       ELSE Return(Err("premature end of string after len - {} chars remaining",
                       I64Display(I64SubNat(Top.n, Top.x))))
    /\ UNCHANGED <<entry, origin, input>>

\* StringClose that reads one character past the counted ones.
StringCloseReadsAhead ==
    /\ In("parse_string", "read")
    /\ ~StringMore(Top.x, Top.n)
    /\ pos' = Advance
    /\ Return(Ok(BCString(Top.buff)))
    /\ UNCHANGED <<entry, origin, input>>

\* The range 0..i is exhausted: Ok(BCObject::String(buff)).
StringClose ==
    /\ In("parse_string", "read")
    /\ ~StringMore(Top.x, Top.n)
    /\ pos' = pos
    /\ Return(Ok(BCString(Top.buff)))
    /\ UNCHANGED <<entry, origin, input>>

(***************************************************************************)
(* parse_list                                                              *)
(***************************************************************************)

\* if let Some('l') = iter.next()
ListOpen ==
    /\ In("parse_list", "open")
    /\ pos' = Advance
    /\ IF HasNext /\ NextChar = "l"
       THEN Continue([Top EXCEPT !.pc = "loop"])
       ELSE Return(Err("tried to parse a list - not a list", << >>))
    /\ UNCHANGED <<entry, origin, input>>

\* One iteration of the while loop, up to the call Self::parse(iter).
ListLoop ==
    /\ In("parse_list", "loop")
    /\ HasNext /\ NextChar # "e"
    /\ pos' = pos
    /\ Call([Top EXCEPT !.pc = "item"], ParseFrame)
    /\ UNCHANGED <<entry, origin, input>>

\* ListItem that puts the item at the front of the vector.
ListItemAtFront ==
    /\ In("parse_list", "item")
    /\ pos' = pos
    /\ IF IsOk(ret)
       THEN Continue([Top EXCEPT !.pc = "loop", !.v = <<ret.v>> \o @])
       ELSE Panic
    /\ UNCHANGED <<entry, origin, input>>

\* v.push(Self::parse(iter).unwrap()): an Err item panics.
ListItem ==
    /\ In("parse_list", "item")
    /\ pos' = pos
    /\ IF IsOk(ret)
       THEN Continue([Top EXCEPT !.pc = "loop", !.v = Append(@, ret.v)])
       ELSE Panic
    /\ UNCHANGED <<entry, origin, input>>

\* ListClose without the premature-end check.
ListCloseUnchecked ==
    /\ In("parse_list", "loop")
    /\ ~(HasNext /\ NextChar # "e")
    /\ pos' = Advance
    /\ Return(Ok(BCList(Top.v)))
    /\ UNCHANGED <<entry, origin, input>>

\* After the loop: the premature-end check, then the closing 'e' consumed.
ListClose ==
    /\ In("parse_list", "loop")
    /\ ~(HasNext /\ NextChar # "e")
    /\ pos' = Advance
    /\ IF ~HasNext
       THEN Return(Err("premature end of list string", << >>))
       ELSE Return(Ok(BCList(Top.v)))
    /\ UNCHANGED <<entry, origin, input>>

(***************************************************************************)
(* parse_dictionary                                                        *)
(***************************************************************************)

\* if let Some('d') = iter.next()
DictionaryOpen ==
    /\ In("parse_dictionary", "open")
    /\ pos' = Advance
    /\ IF HasNext /\ NextChar = "d"
       THEN Continue([Top EXCEPT !.pc = "loop"])
       ELSE Return(Err("tried to parse a dictionary - not a dictionary", << >>))
    /\ UNCHANGED <<entry, origin, input>>

\* One iteration of the while loop, up to the call Self::parse_string(iter)
\* for the key: the string rule itself, not the dispatcher.
DictionaryLoop ==
    /\ In("parse_dictionary", "loop")
    /\ HasNext /\ NextChar # "e"
    /\ pos' = pos
    /\ Call([Top EXCEPT !.pc = "key"], StringFrame)
    /\ UNCHANGED <<entry, origin, input>>

\* The key's Result matched: an Err is returned, a String becomes the key
\* and Self::parse(iter) is called for the value.
DictionaryKey ==
    /\ In("parse_dictionary", "key")
    /\ pos' = pos
    /\ IF IsErr(ret) THEN Return(ret)
       ELSE IF ret.v.tag # "String"
       THEN Return(Err("key was not a string type - abort", << >>))
       ELSE Call([Top EXCEPT !.pc = "value", !.key = ret.v.s], ParseFrame)
    /\ UNCHANGED <<entry, origin, input>>

\* The value's Result matched: an Err is returned, a value is inserted
\* under the key.
DictionaryValue ==
    /\ In("parse_dictionary", "value")
    /\ pos' = pos
    /\ IF IsErr(ret) THEN Return(ret)
       ELSE Continue([Top EXCEPT !.pc = "loop",
                                 !.m = MapInsert(@, Top.key, ret.v)])
    /\ UNCHANGED <<entry, origin, input>>

\* After the loop: the premature-end check, then the closing 'e' consumed.
DictionaryClose ==
    /\ In("parse_dictionary", "loop")
    /\ ~(HasNext /\ NextChar # "e")
    /\ pos' = Advance
    /\ IF ~HasNext
       THEN Return(Err("premature end of dictionary string", << >>))
       ELSE Return(Ok(BCDictionary(Top.m)))
    /\ UNCHANGED <<entry, origin, input>>

Next ==
    \/ Parse
    \/ IntegerOpen \/ IntegerLoop \/ IntegerClose
    \/ StringLenLoop \/ StringLenClose \/ StringRead \/ StringClose
    \/ ListOpen \/ ListLoop \/ ListItem \/ ListClose
    \/ DictionaryOpen \/ DictionaryLoop \/ DictionaryKey
    \/ DictionaryValue \/ DictionaryClose

(***************************************************************************)
(* Inputs                                                                  *)
(***************************************************************************)

\* Bounds of the inputs.
MaxLen == 5      \* raw texts: every text of at most MaxLen characters
MaxNodes == 3    \* well-formed encodings: value trees of at most MaxNodes nodes
MaxBody == 3     \* integer bodies: every body of at most MaxBody characters
MaxCount == 3    \* strings: every length prefix k of 0..MaxCount
MaxInt == 12     \* integers: every n of -MaxInt..MaxInt
MaxPairs == 3    \* flat dictionaries: at most MaxPairs key/value pairs
MaxSuffix == 2   \* trailing texts: every suffix of 1..MaxSuffix characters
MaxStem == 2     \* encodings before a suffix: trees of at most MaxStem nodes

\* The texts of at most n characters of alphabet A.
TextsUpTo(A, n) == UNION {[1..k -> A] : k \in 0..n}

RawAlphabet == {"i", "e", "l", "d", ":", "-", "0", "1", NonAscii}
BodyAlphabet == {"-", "+", "0", "7", NonAscii}
TextAlphabet == {":", "e", "1", NonAscii}

I64OfInt(k) == I64(k < 0, MagOfNat(IF k < 0 THEN 0 - k ELSE k))
I64Max == I64(FALSE, I64MaxMag)
I64Min == I64(TRUE, I64MinMag)

\* A value tree, as an encoder would be given it:
\*   int (an i64), str (a text), list (a sequence of trees),
\*   dict (a sequence of <<key text, tree>> pairs, in input order).
TInt(n) == [tag |-> "int", n |-> n]
TStr(s) == [tag |-> "str", s |-> s]
TList(ts) == [tag |-> "list", items |-> ts]
TDict(ps) == [tag |-> "dict", pairs |-> ps]

IntAtoms == {TInt(I64OfInt(0)), TInt(I64OfInt(0 - 12))}
KeyAtoms == {<< >>, <<"e", ":">>}
StrAtoms == {TStr(k) : k \in KeyAtoms}

RECURSIVE TreesOfSize(_), TreeSeqs(_), PairSeqs(_)
\* The trees of exactly n nodes.
TreesOfSize(n) ==
    IF n = 1 THEN IntAtoms \cup StrAtoms \cup {TList(<< >>), TDict(<< >>)}
    ELSE {TList(ts) : ts \in TreeSeqs(n - 1) \ {<< >>}}
         \cup {TDict(ps) : ps \in PairSeqs(n - 1) \ {<< >>}}
\* The sequences of trees of n nodes in all.
TreeSeqs(n) ==
    IF n = 0 THEN {<< >>}
    ELSE UNION {{<<t>> \o rest : t \in TreesOfSize(k), rest \in TreeSeqs(n - k)}
                : k \in 1..n}
\* The sequences of key/tree pairs whose trees have n nodes in all.
PairSeqs(n) ==
    IF n = 0 THEN {<< >>}
    ELSE UNION {{<< <<key, t>> >> \o rest :
                    key \in KeyAtoms, t \in TreesOfSize(k),
                    rest \in PairSeqs(n - k)}
                : k \in 1..n}

\* Dictionaries of up to MaxPairs pairs, in every order and with repeated
\* keys, over three keys and three values.
FlatPairs ==
    (KeyAtoms \cup {<<"1">>})
    \X {TInt(I64OfInt(0 - 12)), TStr(<<"e", ":">>), TList(<< >>)}
FlatDicts == {TDict(ps) : ps \in UNION {[1..k -> FlatPairs] : k \in 0..MaxPairs}}

Trees == UNION {TreesOfSize(n) : n \in 1..MaxNodes} \cup FlatDicts

\* What may follow a well-formed encoding: a stray terminator, the start of
\* another value, a separator, a character of more than one byte.
SuffixAlphabet == {"e", "i", "0", ":", NonAscii}
Suffixes == TextsUpTo(SuffixAlphabet, MaxSuffix) \ {<< >>}

\* The decimal text of a natural number.
NatText(k) == I64Display(I64(FALSE, MagOfNat(k)))

RECURSIVE Encode(_), EncodeAll(_), EncodePairs(_)
\* The bencoding of a tree: i<n>e, <len>:<chars>, l<items>e, d<pairs>e.
Encode(t) ==
    CASE t.tag = "int" -> <<"i">> \o I64Display(t.n) \o <<"e">>
      [] t.tag = "str" -> NatText(Len(t.s)) \o <<":">> \o t.s
      [] t.tag = "list" -> <<"l">> \o EncodeAll(t.items) \o <<"e">>
      [] t.tag = "dict" -> <<"d">> \o EncodePairs(t.pairs) \o <<"e">>
EncodeAll(ts) ==
    IF ts = << >> THEN << >> ELSE Encode(Head(ts)) \o EncodeAll(Tail(ts))
EncodePairs(ps) ==
    IF ps = << >> THEN << >>
    ELSE Encode(TStr(Head(ps)[1])) \o Encode(Head(ps)[2]) \o EncodePairs(Tail(ps))

\* Integer bodies at and beyond the ends of the i64 range.
RangeBodies ==
    {I64Display(I64Max), I64Display(I64Min),
     I64Display(I64(FALSE, I64MinMag)),
     I64Display(I64(TRUE, MagMulAdd(SubSeq(I64MinMag, 1, 18), 9))),
     I64Display(I64(FALSE, MagMulAdd(I64MaxMag, 0))),
     I64Display(I64(TRUE, MagMulAdd(I64MaxMag, 0)))}

Bodies == TextsUpTo(BodyAlphabet, MaxBody) \cup RangeBodies

\* <<k, s>>: a length prefix and the characters that follow the ':'.
Hello == <<"h", "e", "l", "l", "o", " ", "w", "o", "r", "l", "d">>
Counted ==
    {<<k, s>> : k \in 0..MaxCount, s \in TextsUpTo(TextAlphabet, MaxCount)}
    \cup {<<11, SubSeq(Hello, 1, j)>> : j \in {0, 9, 10, 11}}

\* Length prefixes that parse as a negative i64.
NegativeLens == {I64Display(I64OfInt(0 - 1)), I64Display(I64OfInt(0 - 12)),
                 I64Display(I64Min)}

\* The inputs of the repository's tests, each with the rule the test calls.
TestVectors ==
    {
      <<"parse_integer",
        <<"i", "6", "2", "3", "e">>>>,
      <<"parse_integer",
        <<"i", "-", "2", "1", "3", "1", "e">>>>,
      <<"parse_integer",
        <<"i", "0", "e">>>>,
      <<"parse_integer",
        <<"i", "3", "2", "4">>>>,
      <<"parse_integer",
        <<"8", "1", "2">>>>,
      <<"parse_integer",
        <<"i", "-", "0", "e">>>>,
      <<"parse_integer",
        <<"i", "0", "1", "2", "3", "e">>>>,
      <<"parse_integer",
        <<"i", "-", "0", "1", "2", "3", "e">>>>,
      <<"parse_string",
        <<"1", "1", ":", "h", "e", "l", "l", "o", " ", "w", "o", "r", "l", "d">>>>,
      <<"parse_string",
        <<"1", "1", ":", "h", "e", "l", "l", "o", " ", "w">>>>,
      <<"parse_string",
        <<":", "h", "e", "l", "l", "o">>>>,
      <<"parse_string",
        <<"h", "e", "l", "l", "o">>>>,
      <<"parse_list",
        <<"l", "i", "1", "2", "3", "e", "i", "4", "5", "6", "e", "i", "7", "8", "9", "e", "e">>>>,
      <<"parse_list",
        <<"l", "i", "1", "2", "3", "e", "i", "4", "5", "6", "e", "i", "7", "8", "9", "e", "l", "4", ":", "1", "2", "3", "4", "4", ":", "5", "6", "7", "8", "e", "e">>>>,
      <<"parse_list",
        <<"l", "i", "1", "2", "3", "e", "i", "4", "5", "6", "e", "i", "7", "8", "9", "e">>>>,
      <<"parse_list",
        <<"i", "1", "2", "3", "e", "i", "4", "5", "6", "e", "i", "7", "8", "9", "e">>>>,
      <<"parse_dictionary",
        <<"d", "5", ":", "h", "e", "l", "l", "o", "5", ":", "w", "o", "r", "l", "d", "5", ":", "v", "a", "l", "u", "e", "i", "1", "2", "3", "e", "e">>>>,
      <<"parse_dictionary",
        <<"d", "5", ":", "h", "e", "l", "l", "o", "d", "4", ":", "n", "a", "m", "e", "5", ":", "w", "o", "r", "l", "d", "e", "e">>>>,
      <<"parse_dictionary",
        <<"d", "5", ":", "h", "e", "l", "l", "o", "5", ":", "w", "o", "r", "l", "d", "5", ":", "v", "a", "l", "u", "e", "i", "1", "2", "3", "e">>>>,
      <<"parse_dictionary",
        <<"5", ":", "h", "e", "l", "l", "o", "5", ":", "w", "o", "r", "l", "d", "5", ":", "v", "a", "l", "u", "e", "i", "1", "2", "3", "e">>>>
    }

\* The frame of the function the caller invokes; parse_blob calls parse.
EntryFrame(fn) ==
    CASE fn = "parse_blob" -> ParseFrame
      [] fn = "parse_integer" -> IntegerFrame
      [] fn = "parse_string" -> StringFrame
      [] fn = "parse_list" -> ListFrame
      [] fn = "parse_dictionary" -> DictionaryFrame

From(kind, arg) == [kind |-> kind, arg |-> arg]

Init ==
    /\ pos = 1
    /\ ret = NoRet
    /\ outcome = "running"
    /\ \/ /\ entry = "parse_blob"
          /\ input \in TextsUpTo(RawAlphabet, MaxLen)
          /\ origin = From("raw", << >>)
       \/ /\ entry = "parse_blob"
          /\ \E t \in Trees :
                \/ input = Encode(t) /\ origin = From("encoded", t)
                \/ /\ input = SubSeq(Encode(t), 1, Len(Encode(t)) - 1)
                   /\ origin = From("truncated", t)
       \/ /\ entry = "parse_blob"
          /\ \E k \in (0 - MaxInt)..MaxInt :
                /\ input = Encode(TInt(I64OfInt(k)))
                /\ origin = From("integer", I64OfInt(k))
       \/ /\ entry = "parse_blob"
          /\ \E body \in Bodies :
                /\ input = <<"i">> \o body \o <<"e">>
                /\ origin = From("body", body)
       \/ /\ entry = "parse_blob"
          /\ \E c \in Counted :
                /\ Len(c[2]) <= c[1]
                /\ input = NatText(c[1]) \o <<":">> \o c[2]
                /\ origin = From("counted", c)
       \/ /\ \E len \in NegativeLens, t \in TreesOfSize(1) :
                /\ origin = From("negative", <<len, t>>)
                /\ \/ /\ entry = "parse_blob"
                      /\ input = <<"d">> \o len \o <<":">> \o Encode(t) \o <<"e">>
                   \/ /\ entry = "parse_string"
                      /\ input = len \o <<":">> \o Encode(t)
       \/ /\ entry = "parse_blob"
          /\ \E n \in 1..MaxStem : \E w \in TreesOfSize(n), t \in Suffixes :
                /\ input = Encode(w) \o t
                /\ origin = From("suffixed", <<w, t>>)
       \/ /\ \E tv \in TestVectors : entry = tv[1] /\ input = tv[2]
          /\ origin = From("test", << >>)
    /\ stack = <<EntryFrame(entry)>>

Spec == Init /\ [][Next]_vars

(***************************************************************************)
(* What the claims speak of                                                *)
(***************************************************************************)

\* decode (parse_blob) has ended, by a return or by a panic.
Decoded == entry = "parse_blob" /\ outcome # "running"
\* decode has returned a Result.
Returned == entry = "parse_blob" /\ outcome = "returned"

\* The messages of the premature-end errors of the four rules.
PrematureEnd ==
    {"premature end of integer string", "premature end of string",
     "premature end of string after len - {} chars remaining",
     "premature end of list string", "premature end of dictionary string"}

\* The index of the last pair of ps with the given key.
LastIndex(ps, key) ==
    CHOOSE j \in 1..Len(ps) :
        ps[j][1] = key /\ \A k \in (j + 1)..Len(ps) : ps[k][1] # key

RECURSIVE ValueOf(_)
\* The value a tree stands for; in a dict a key's last pair gives its value.
ValueOf(t) ==
    CASE t.tag = "int" -> BCInteger(t.n)
      [] t.tag = "str" -> BCString(t.s)
      [] t.tag = "list" ->
            BCList([k \in 1..Len(t.items) |-> ValueOf(t.items[k])])
      [] t.tag = "dict" ->
            BCDictionary([key \in {t.pairs[j][1] : j \in 1..Len(t.pairs)} |->
                            ValueOf(t.pairs[LastIndex(t.pairs, key)][2])])

\* A decimal integer text: an optional '-', then digits.
IsDecimal(b) ==
    LET ds == IF b # << >> /\ Head(b) = "-" THEN Tail(b) ELSE b
    IN  ds # << >> /\ \A k \in 1..Len(ds) : ds[k] \in Digits
\* Canonical: no leading zero other than "0" itself, and no "-0".
IsCanonical(b) ==
    /\ IsDecimal(b)
    /\ b[1] = "0" => b = <<"0">>
    /\ b[1] = "-" => b[2] # "0"
\* The integer a canonical text denotes, of any size.
Denoted(b) ==
    LET ds == IF Head(b) = "-" THEN Tail(b) ELSE b
    IN  IF b = <<"0">> THEN I64Zero
        ELSE [neg |-> Head(b) = "-", mag |-> [k \in 1..Len(ds) |-> DigitOf(ds[k])]]
\* -2^63 <= n <= 2^63 - 1
InI64Range(n) == ~I64Less(n, I64Min) /\ ~I64Less(I64Max, n)

(***************************************************************************)
(* C1.  decode is total: on every input, the empty one, one with an        *)
(* unknown first character, a list or dictionary with a malformed item and *)
(* an integer body of arbitrary characters included, parse_blob returns a  *)
(* value or an error value and never panics.                               *)
(***************************************************************************)
C1_DecodeNeverPanics == Decoded => outcome = "returned" /\ ret.tag \in {"Ok", "Err"}

(***************************************************************************)
(* C2.  Truncation: decoding a well-formed encoding (integer, string,      *)
(* list, dictionary, nested) without its final character returns a         *)
(* premature-end error, never a value.                                     *)
(***************************************************************************)
C2_TruncationIsPrematureEnd ==
    (Decoded /\ origin.kind = "truncated") =>
        outcome = "returned" /\ IsErr(ret) /\ ret.e[1] \in PrematureEnd

\* The truncated encoding of a dictionary that holds a list has been decoded.
C2_Witness ==
    /\ Decoded /\ origin.kind = "truncated"
    /\ origin.arg.tag = "dict" /\ origin.arg.pairs # << >>
    /\ origin.arg.pairs[1][2].tag = "list"
    /\ IsErr(ret) /\ ret.e[1] = "premature end of dictionary string"

(***************************************************************************)
(* C3.  For every n of the i64 range in canonical decimal form,            *)
(* decode("i" + n + "e") returns Integer(n); a canonical body whose value  *)
(* is outside the i64 range returns an error.                              *)
(***************************************************************************)
C3_IntegerRoundTrip ==
    /\ (Decoded /\ origin.kind = "integer") => ret = Ok(BCInteger(origin.arg))
    /\ (Decoded /\ origin.kind = "body" /\ IsCanonical(origin.arg)) =>
            IF InI64Range(Denoted(origin.arg))
            THEN ret = Ok(BCInteger(Denoted(origin.arg)))
            ELSE outcome = "returned" /\ IsErr(ret)

\* The least i64, -9223372036854775808, has been decoded to a value.
C3_Witness ==
    /\ Decoded /\ origin.kind = "body" /\ origin.arg = I64Display(I64Min)
    /\ IsCanonical(origin.arg) /\ InI64Range(Denoted(origin.arg))
    /\ outcome = "returned" /\ IsOk(ret) /\ ret.v.i = I64Min

(***************************************************************************)
(* C4.  The integer rule returns an error, and never a value, for a body   *)
(* (the text between 'i' and the next 'e') that is empty, that is "-0" or  *)
(* begins with "-0", or that has more than one character and begins with   *)
(* "0".                                                                    *)
(***************************************************************************)
C4_Rejected(b) ==
    \/ b = << >>
    \/ Len(b) >= 2 /\ SubSeq(b, 1, 2) = <<"-", "0">>
    \/ Len(b) > 1 /\ b[1] = "0"

C4_NonCanonicalIsError ==
    (Decoded /\ origin.kind = "body" /\ C4_Rejected(origin.arg)) =>
        outcome = "returned" /\ IsErr(ret)

(***************************************************************************)
(* C5.  For every k >= 0 and every s of exactly k characters (':', 'e',    *)
(* digits and any other character included), decode(k + ":" + s) returns   *)
(* Text(s); when fewer than k characters follow the ':', the string rule   *)
(* returns the premature-end error that reports k minus the number of      *)
(* characters read.                                                        *)
(***************************************************************************)
C5_CountedString ==
    (Decoded /\ origin.kind = "counted") =>
        LET k == origin.arg[1]
            s == origin.arg[2]
        IN  IF Len(s) = k
            THEN ret = Ok(BCString(s))
            ELSE ret = Err("premature end of string after len - {} chars remaining",
                           NatText(k - Len(s)))

\* "3:e:" has been decoded: three characters owed, two read, one reported.
C5_Witness ==
    /\ Decoded /\ origin.kind = "counted"
    /\ origin.arg = <<3, <<"e", ":">> >>
    /\ IsErr(ret) /\ ret.e[2] = <<"1">>

(***************************************************************************)
(* C6.  Decoding "l" + the encodings of a sequence of well-formed items    *)
(* (integers, strings, lists, dictionaries, nested) + "e" returns a List   *)
(* of as many elements, the decoded items in the order of the input.       *)
(***************************************************************************)
C6_ListInOrder ==
    (Decoded /\ origin.kind = "encoded" /\ origin.arg.tag = "list") =>
        /\ outcome = "returned" /\ IsOk(ret) /\ ret.v.tag = "List"
        /\ Len(ret.v.l) = Len(origin.arg.items)
        /\ \A k \in 1..Len(origin.arg.items) :
                ret.v.l[k] = ValueOf(origin.arg.items[k])

\* A list of two different items, the second one a container, has been decoded.
C6_Witness ==
    /\ Decoded /\ origin.kind = "encoded" /\ origin.arg.tag = "list"
    /\ Len(origin.arg.items) = 2
    /\ origin.arg.items[1].tag = "str" /\ origin.arg.items[2].tag = "dict"
    /\ IsOk(ret) /\ Len(ret.v.l) = 2

(***************************************************************************)
(* C7.  For a mapping from Text keys to well-formed values, decoding       *)
(* "d" + its key/value pairs + "e" returns a Dictionary that compares      *)
(* equal (BCObject's PartialEq) to the mapping built directly, whatever    *)
(* the order of the pairs in the input; that equality is deep, and values  *)
(* of different variants never compare equal.                              *)
(***************************************************************************)
DistinctKeys(ps) ==
    \A j, k \in 1..Len(ps) : j # k => ps[j][1] # ps[k][1]

\* The mapping built directly from pairs of distinct keys.
C7_Direct(ps) ==
    BCDictionary([key \in {ps[j][1] : j \in 1..Len(ps)} |->
                    ValueOf(ps[CHOOSE j \in 1..Len(ps) : ps[j][1] = key][2])])

\* Values to compare a decoded value with.
C7_Probes ==
    {ValueOf(t) : t \in TreesOfSize(1) \cup TreesOfSize(2)
                        \cup {TDict(ps) : ps \in [1..2 -> FlatPairs]}}

C7_DictionaryEquality ==
    /\ (Decoded /\ origin.kind = "encoded" /\ origin.arg.tag = "dict"
            /\ DistinctKeys(origin.arg.pairs)) =>
            /\ outcome = "returned" /\ IsOk(ret)
            /\ BCObjectEq(ret.v, C7_Direct(origin.arg.pairs))
            /\ BCObjectEq(C7_Direct(origin.arg.pairs), ret.v)
    \* eq on a decoded value of any variant, against each probe
    /\ (Decoded /\ origin.kind = "encoded" /\ outcome = "returned" /\ IsOk(ret)) =>
            \A b \in C7_Probes :
                /\ BCObjectEq(ret.v, b) <=> ret.v = b
                /\ BCObjectEq(b, ret.v) <=> ret.v = b
                /\ b.tag # ret.v.tag => ~BCObjectEq(ret.v, b) /\ ~BCObjectEq(b, ret.v)

\* Two pairs given with the greater key first have been decoded, and the
\* result equals what the pairs in the other order stand for.
C7_Witness ==
    /\ Decoded /\ origin.kind = "encoded" /\ origin.arg.tag = "dict"
    /\ Len(origin.arg.pairs) = 2
    /\ origin.arg.pairs[1][1] = <<"e", ":">> /\ origin.arg.pairs[2][1] = << >>
    /\ origin.arg.pairs[1][2].tag # origin.arg.pairs[2][2].tag
    /\ IsOk(ret)
    /\ BCObjectEq(ret.v, ValueOf(TDict(<<origin.arg.pairs[2], origin.arg.pairs[1]>>)))

(***************************************************************************)
(* C8.  Canonical form gives each integer value one text: an integer body  *)
(* that decodes to Integer(v) is the one canonical decimal text of v, so   *)
(* no two different bodies decode to the same integer.                     *)
(***************************************************************************)
C8_OneBodyPerInteger ==
    (Decoded /\ origin.kind = "body" /\ outcome = "returned" /\ IsOk(ret)) =>
        origin.arg = I64Display(ret.v.i)

(***************************************************************************)
(* C9.  When a key occurs more than once in a dictionary's input, decoding *)
(* succeeds, the Dictionary holds one entry for the key, with the value of *)
(* the key's last occurrence, and the entries of other keys are as given.  *)
(***************************************************************************)
C9_LastDuplicateWins ==
    (Decoded /\ origin.kind = "encoded" /\ origin.arg.tag = "dict"
        /\ ~DistinctKeys(origin.arg.pairs)) =>
        LET ps == origin.arg.pairs
        IN  /\ outcome = "returned" /\ IsOk(ret) /\ ret.v.tag = "Dictionary"
            /\ DOMAIN ret.v.m = {ps[j][1] : j \in 1..Len(ps)}
            /\ \A key \in DOMAIN ret.v.m :
                    ret.v.m[key] = ValueOf(ps[LastIndex(ps, key)][2])

\* A key given first and last with different values, another key between.
C9_Witness ==
    /\ Decoded /\ origin.kind = "encoded" /\ origin.arg.tag = "dict"
    /\ Len(origin.arg.pairs) = 3
    /\ origin.arg.pairs[1][1] = origin.arg.pairs[3][1]
    /\ origin.arg.pairs[1][1] # origin.arg.pairs[2][1]
    /\ origin.arg.pairs[1][2] # origin.arg.pairs[3][2]
    /\ IsOk(ret) /\ Cardinality(DOMAIN ret.v.m) = 2
    /\ ret.v.m[origin.arg.pairs[1][1]] = ValueOf(origin.arg.pairs[3][2])

(***************************************************************************)
(* C10.  A length prefix that parses as a negative integer (in a           *)
(* dictionary's key position, as in "d-1:i5ee") makes the string rule      *)
(* consume the prefix and the ':', read no character more and succeed with *)
(* the empty Text, the cursor on the character right after the ':'.        *)
(***************************************************************************)
C10_NegativeLengthIsEmptyText ==
    /\ (In("parse_string", "read") /\ Top.n.neg) =>
            /\ Top.buff = << >> /\ Top.x = 0 /\ ~StringMore(Top.x, Top.n)
            /\ input[pos - 1] = ":"
            /\ SubSeq(input, pos - 1 - Len(Top.len), pos - 2) = Top.len
    /\ (outcome = "returned" /\ origin.kind = "negative") =>
            IF entry = "parse_string"
            THEN ret = Ok(BCString(<< >>)) /\ pos = Len(origin.arg[1]) + 2
            ELSE /\ ret = Ok(BCDictionary([key \in {<< >>} |-> ValueOf(origin.arg[2])]))
                 /\ pos = Len(input) + 1

\* "d-12:" + a value + "e" has been decoded to a one-entry Dictionary.
C10_Witness ==
    /\ Returned /\ origin.kind = "negative"
    /\ origin.arg[1] = <<"-", "1", "2">>
    /\ IsOk(ret) /\ ret.v.tag = "Dictionary" /\ DOMAIN ret.v.m = {<< >>}

(***************************************************************************)
(* C11: termination                                                        *)
(***************************************************************************)

\* What the innermost call still owes, in steps that read no character: a
\* call just made owes least, a loop that has read its opening character
\* owes more, and a caller that has its callee's Ok back owes one more than
\* the loop it goes back to.  An Err only unwinds.
TopWeight ==
    IF Top.fn = "parse" THEN 2
    ELSE IF Top.pc \in {"open", "len"} THEN 1
    ELSE IF Top.pc \in {"item", "key", "value"}
    THEN (IF IsOk(ret) THEN 14 ELSE 5)
    ELSE 13

\* The variant of the decoder: 16 for every character not yet read, 10 for
\* every call that waits for its callee, and TopWeight for the innermost
\* call.  It depends on the cursor and on the point of control alone, so
\* between two visits of one loop head at one depth it drops by 16 for every
\* character read in between and by nothing else.
Rank ==
    16 * (Len(input) + 1 - pos)
    + (IF Running THEN 10 * (Len(stack) - 1) + TopWeight ELSE 0)

\* A step of the integer loop, the length loop or the counted loop after
\* which the same loop goes on.
LoopGoesOn ==
    /\ Running /\ Running'
    /\ Top.fn \in {"parse_integer", "parse_string"}
    /\ Len(stack') = Len(stack)
    /\ Top'.pc = Top.pc
    /\ Top.pc \in {"loop", "len", "read"}

\* C11: decode terminates on every finite input.  In every step the cursor
\* does not move back; the dispatcher leaves it where it is; an iteration of
\* the integer loop or of one of the two string loops that does not end the
\* rule reads exactly one character; and Rank, which is never negative and
\* starts no higher than 16 * Len(input) + 29, drops.  So a decode takes at
\* most 16 * Len(input) + 29 steps, and an iteration of the list loop or of
\* the dictionary loop that comes back to the loop head has read a character.
C11_DecodeTerminates ==
    [][ /\ pos' >= pos
        /\ (Top.fn = "parse" => pos' = pos)
        /\ (LoopGoesOn => pos' = pos + 1)
        /\ Rank' < Rank
        /\ Rank' >= 0
        /\ Rank <= 16 * Len(input) + 29 ]_vars

\* A list of two items decoded to its end: the list loop went round twice,
\* the dispatcher was called for each item, and the variant ran out exactly
\* when the last character was read.
C11_Witness ==
    /\ Returned /\ origin.kind = "encoded"
    /\ IsOk(ret) /\ ret.v.tag = "List" /\ Len(ret.v.l) = 2
    /\ pos = Len(input) + 1
    /\ Rank = 0

(***************************************************************************)
(* C12.  A successful rule consumes exactly the characters of the one      *)
(* value it decoded and leaves the cursor on the character right after     *)
(* it; parse_blob does not look at what is left, so for a well-formed      *)
(* encoding w and a suffix t, decode(w + t) returns the value decode(w)    *)
(* returns and t is ignored.                                               *)
(***************************************************************************)
RECURSIVE Subtrees(_)
\* A tree, the trees inside it, and the keys of its dictionaries as strings.
Subtrees(t) ==
    {t} \cup
    CASE t.tag = "list" -> UNION {Subtrees(t.items[k]) : k \in 1..Len(t.items)}
      [] t.tag = "dict" ->
            UNION {Subtrees(t.pairs[k][2]) \cup {TStr(t.pairs[k][1])}
                   : k \in 1..Len(t.pairs)}
      [] OTHER -> {}

\* The characters just before the cursor are the encoding of s.
JustRead(s) ==
    /\ pos - Len(Encode(s)) >= 1
    /\ SubSeq(input, pos - Len(Encode(s)), pos - 1) = Encode(s)

\* The well-formed encoding a run was given, alone or before a suffix.
WellFormed ==
    IF origin.kind = "suffixed" THEN origin.arg[1] ELSE origin.arg

\* On a well-formed encoding, followed by a suffix or not: whenever a rule
\* has returned Ok to a list or a dictionary, the characters just before the
\* cursor are the encoding of a value of the input and the Ok holds that
\* value; and decode returns the value of the whole encoding with the cursor
\* on the first character of the suffix, whatever the suffix is.
C12_SuffixIsIgnored ==
    origin.kind \in {"encoded", "suffixed"} =>
        /\ (Running /\ Top.fn # "parse" /\ Top.pc \in {"item", "key", "value"}) =>
                /\ IsOk(ret)
                /\ \E s \in Subtrees(WellFormed) :
                        ret.v = ValueOf(s) /\ JustRead(s)
        /\ Decoded =>
                /\ outcome = "returned"
                /\ ret = Ok(ValueOf(WellFormed))
                /\ pos = Len(Encode(WellFormed)) + 1

\* A list holding a string has been decoded with two characters after it,
\* the first of them a terminator: the cursor is on that terminator.
C12_Witness ==
    /\ Returned /\ origin.kind = "suffixed"
    /\ origin.arg[1].tag = "list" /\ Len(origin.arg[1].items) = 1
    /\ origin.arg[1].items[1].tag = "str"
    /\ Len(origin.arg[2]) = 2 /\ origin.arg[2][1] = "e"
    /\ IsOk(ret) /\ ret.v.tag = "List"
    /\ pos = Len(input) - 1 /\ input[pos] = "e"

=============================================================================
